---------------------------- MODULE Spec2Model ----------------------------
(***************************************************************************)
(* A model of src/main.py: the two-stage question round                    *)
(* (get_deepseek_reasoning_stream, get_openai_answer_stream,               *)
(* process_question), the bounded ConversationHistory and the interactive  *)
(* loop.                                                                   *)
(*                                                                         *)
(* Text is a sequence of one-character strings.  A JSON value is a tagged  *)
(* record; a response line is a record saying whether it carries the       *)
(* "data: " prefix and what follows it.  Python's None is the value None.  *)
(***************************************************************************)
EXTENDS Integers, Sequences, FiniteSets, TLC

VARIABLES
    history,                      \* ConversationHistory.history
    max_history,                  \* ConversationHistory.max_history
    pc,                           \* where the interactive loop stands
    user_prompt,                  \* process_question's user_prompt
    reasoning_content,            \* the reasoning text, accumulated then returned
    complete_answer,              \* the answer text, accumulated then returned
    lines,                        \* the body of the response being consumed
    consumed,                     \* how many of its lines iter_lines has yielded
    last_reasoning_content_time,  \* "None" or "set"
    stdout,                       \* what the current stage, or the last command,
                                  \* has written so far
    r_conn,                       \* the reasoning response: "none", "open", "closed"
    a_conn,                       \* the answer response: "none", "open", "closed"
    messages,                     \* the messages of the request last sent
    posted,                       \* the endpoints this round has sent a request to
    outcome,                      \* how the round goes or went: "none", "running",
                                  \* "succeeded" (both stages returned a text),
                                  \* "reasoning_failed", "answer_failed" (the stage
                                  \* returned None), "transport_error" (post
                                  \* raised), "stream_error" (iter_lines raised),
                                  \* "exception" (a line raised), "interrupted"
    hist0,                        \* the history when the round started
    rounds,                       \* how many question rounds were started
    log                           \* every Turn add_interaction was given, in order

vars == <<history, max_history, pc, user_prompt, reasoning_content,
          complete_answer, lines, consumed, last_reasoning_content_time,
          stdout, r_conn, a_conn, messages, posted, outcome, hist0, rounds,
          log>>

(***************************************************************************)
(* Bounds of the model.                                                    *)
(***************************************************************************)
\* lines of a response in the single-stage specification
MaxStageLines == 3
\* question rounds of one session
MaxRounds == 2
\* largest capacity and number of commits in the history specification
MaxCap == 3
MaxCommits == 4
\* largest value time.time() returns
MaxTime == 2
\* Turns of a history in the context specification
MaxTurns == 2

\* CONVERSATION_MAX_HISTORY, the capacity the interactive loop constructs with
CONVERSATION_MAX_HISTORY == 100
\* the characters of a question or an answer that get_summary shows
SummaryWidth == 50

None == <<"<None>">>

(***************************************************************************)
(* JSON values as json.loads returns them, and the outcome "an exception   *)
(* was raised" of evaluating a Python expression.                          *)
(***************************************************************************)
JNull == [t |-> "null"]
JBool(b) == [t |-> "bool", b |-> b]
JNum(n) == [t |-> "num", n |-> n]
JStr(s) == [t |-> "str", s |-> s]
JArr(a) == [t |-> "arr", a |-> a]
JObj(o) == [t |-> "obj", o |-> o]
Raise == [t |-> "raise"]

\* the characters of the keys the code looks up
KeyChars(k) ==
    CASE k = "choices" -> <<"c","h","o","i","c","e","s">>
      [] k = "delta" -> <<"d","e","l","t","a">>
      [] k = "content" -> <<"c","o","n","t","e","n","t">>
      [] k = "finish_reason" ->
            <<"f","i","n","i","s","h","_","r","e","a","s","o","n">>
      [] k = "reasoning_content" ->
            <<"r","e","a","s","o","n","i","n","g","_",
              "c","o","n","t","e","n","t">>

\* Python's `needle in hay` for two strings
IsSubstring(needle, hay) ==
    \E i \in 0..(Len(hay) - Len(needle)) :
        SubSeq(hay, i + 1, i + Len(needle)) = needle

\* Python's `k in v` for a string key k: membership in a dict's keys, in a
\* list's elements, substring of a string; TypeError for anything else
PyIn(k, v) ==
    CASE v.t = "obj" -> JBool(k \in DOMAIN v.o)
      [] v.t = "arr" -> JBool(\E i \in 1..Len(v.a) : v.a[i] = JStr(KeyChars(k)))
      [] v.t = "str" -> JBool(IsSubstring(KeyChars(k), v.s))
      [] OTHER -> Raise

\* Python's `v[k]` for a string key k: KeyError on a dict without the key,
\* TypeError on everything that is not a dict
PyGetItem(v, k) ==
    IF v.t = "obj" /\ k \in DOMAIN v.o THEN v.o[k] ELSE Raise

\* Python's `v[0]`: the first element of a list, the first character of a
\* string, IndexError when empty, KeyError on a dict (JSON keys are strings),
\* TypeError on a scalar
PyGetFirst(v) ==
    CASE v.t = "arr" -> IF Len(v.a) > 0 THEN v.a[1] ELSE Raise
      [] v.t = "str" -> IF Len(v.s) > 0 THEN JStr(<<v.s[1]>>) ELSE Raise
      [] OTHER -> Raise

\* Python's truth value of a JSON value
PyTruthy(v) ==
    CASE v.t = "null" -> FALSE
      [] v.t = "bool" -> v.b
      [] v.t = "num" -> v.n # 0
      [] v.t = "str" -> Len(v.s) > 0
      [] v.t = "arr" -> Len(v.a) > 0
      [] v.t = "obj" -> DOMAIN v.o # {}

\* what print() writes for a value: a string as it is, anything else as one
\* token standing for its repr
PyStr(v) ==
    IF v.t = "str" THEN v.s ELSE <<"<repr>">>

\* `'choices' in chunk and chunk['choices'] and k in chunk['choices'][0]`,
\* evaluated left to right: "true", "false" or "raise"
Choice0Has(chunk, k) ==
    LET c1 == PyIn("choices", chunk) IN
    IF c1 = Raise THEN "raise"
    ELSE IF ~c1.b THEN "false"
    ELSE LET ch == PyGetItem(chunk, "choices") IN
         IF ch = Raise THEN "raise"
         ELSE IF ~PyTruthy(ch) THEN "false"
         ELSE LET c0 == PyGetFirst(ch) IN
              IF c0 = Raise THEN "raise"
              ELSE LET c3 == PyIn(k, c0) IN
                   IF c3 = Raise THEN "raise"
                   ELSE IF c3.b THEN "true" ELSE "false"

\* chunk['choices'][0], read where Choice0Has(chunk, k) was "true"
Choice0(chunk) == PyGetFirst(PyGetItem(chunk, "choices"))

(***************************************************************************)
(* Response lines.  A line is [prefix, body]: whether it starts with       *)
(* "data: " and what follows: nothing, the [DONE] sentinel, text that is   *)
(* not JSON, bytes that are not UTF-8, or a JSON document.                 *)
(***************************************************************************)
Line(prefix, body) == [prefix |-> prefix, body |-> body]
BEmpty == [b |-> "empty"]
BDone == [b |-> "done"]
BText == [b |-> "text"]
BBytes == [b |-> "bytes"]
BJson(v) == [b |-> "json", v |-> v]

\* json.loads(line): the value, or the exception it raises
json_loads(body) ==
    CASE body.b = "json" -> [r |-> "value", v |-> body.v]
      [] body.b = "bytes" -> [r |-> "UnicodeDecodeError"]
      [] OTHER -> [r |-> "JSONDecodeError"]

\* a step whose print never reaches the output
StepUndelivered(ctl, text, seen, out) ==
    [ctl |-> ctl, text |-> text, seen |-> seen, out |-> <<>>]

\* what a step of a stage's loop yields: how the loop goes on ("continue",
\* "break", "finished" = break with reasoning_finished set, "raise"), the
\* accumulated text, the last-reasoning time and what was written
Step(ctl, text, seen, out) ==
    [ctl |-> ctl, text |-> text, seen |-> seen, out |-> out]

JSONErrorReport == <<"<Error decoding JSON>">>

\* the reasoning loop's try block stopping at a delta with content whether
\* or not a reasoning_content was seen before
DeepseekChunkStopsAtAnyContent(chunk, text, seen) ==
    LET f == Choice0Has(chunk, "finish_reason")
        fin == IF f = "true"
               THEN PyGetItem(Choice0(chunk), "finish_reason") ELSE JNull
        d == Choice0Has(chunk, "delta")
        delta == IF d = "true" THEN PyGetItem(Choice0(chunk), "delta") ELSE Raise
        hasR == IF delta = Raise THEN Raise ELSE PyIn("reasoning_content", delta)
        rval == IF hasR # Raise /\ hasR.b
                THEN PyGetItem(delta, "reasoning_content") ELSE Raise
        hasC == IF delta = Raise THEN Raise ELSE PyIn("content", delta)
    IN
    IF f = "raise" \/ fin = Raise THEN Step("raise", text, seen, <<>>)
    ELSE IF fin # JNull THEN Step("break", text, seen, <<>>)
    ELSE IF d = "raise" THEN Step("raise", text, seen, <<>>)
    ELSE IF d = "false" THEN Step("continue", text, seen, <<>>)
    ELSE IF delta = Raise \/ hasR = Raise THEN Step("raise", text, seen, <<>>)
    ELSE IF hasR.b THEN
        IF rval = Raise THEN Step("raise", text, "set", <<>>)
        ELSE IF ~PyTruthy(rval) THEN Step("continue", text, "set", <<>>)
        ELSE IF rval.t = "str"
             THEN Step("continue", text \o rval.s, "set", <<rval.s>>)
             ELSE Step("raise", text, "set", <<PyStr(rval)>>)
    ELSE IF hasC.b THEN Step("finished", text, seen, <<>>)
    ELSE Step("continue", text, seen, <<>>)

\* the reasoning loop's try block for one decoded chunk
DeepseekChunk(chunk, text, seen) ==
    LET f == Choice0Has(chunk, "finish_reason")
        fin == IF f = "true"
               THEN PyGetItem(Choice0(chunk), "finish_reason") ELSE JNull
        d == Choice0Has(chunk, "delta")
        delta == IF d = "true" THEN PyGetItem(Choice0(chunk), "delta") ELSE Raise
        hasR == IF delta = Raise THEN Raise ELSE PyIn("reasoning_content", delta)
        rval == IF hasR # Raise /\ hasR.b
                THEN PyGetItem(delta, "reasoning_content") ELSE Raise
        hasC == IF delta = Raise THEN Raise ELSE PyIn("content", delta)
    IN
    IF f = "raise" \/ fin = Raise THEN Step("raise", text, seen, <<>>)
    ELSE IF fin # JNull THEN Step("break", text, seen, <<>>)
    ELSE IF d = "raise" THEN Step("raise", text, seen, <<>>)
    ELSE IF d = "false" THEN Step("continue", text, seen, <<>>)
    ELSE IF delta = Raise \/ hasR = Raise THEN Step("raise", text, seen, <<>>)
    ELSE IF hasR.b THEN
        IF rval = Raise THEN Step("raise", text, "set", <<>>)
        ELSE IF ~PyTruthy(rval) THEN Step("continue", text, "set", <<>>)
        ELSE IF rval.t = "str"
             THEN Step("continue", text \o rval.s, "set", <<rval.s>>)
             ELSE Step("raise", text, "set", <<PyStr(rval)>>)
    ELSE IF hasC.b /\ seen # "None" THEN Step("finished", text, seen, <<>>)
    ELSE Step("continue", text, seen, <<>>)

\* one iteration of the reasoning loop on one line of the response
DeepseekLine(line, text, seen) ==
    IF ~line.prefix /\ line.body = BEmpty THEN Step("continue", text, seen, <<>>)
    ELSE IF ~line.prefix THEN Step("continue", text, seen, <<>>)
    ELSE IF line.body = BDone THEN Step("break", text, seen, <<>>)
    ELSE LET j == json_loads(line.body) IN
         CASE j.r = "JSONDecodeError" ->
                  Step("continue", text, seen, <<JSONErrorReport>>)
           [] j.r = "UnicodeDecodeError" -> Step("raise", text, seen, <<>>)
           [] j.r = "value" -> DeepseekChunk(j.v, text, seen)

\* the answer loop's try block with the reasoning loop's finish_reason test
\* put in front of it
OpenaiChunkStopsAtFinish(chunk, text) ==
    LET f == Choice0Has(chunk, "finish_reason")
        fin == IF f = "true"
               THEN PyGetItem(Choice0(chunk), "finish_reason") ELSE JNull
        d == Choice0Has(chunk, "delta")
        delta == IF d = "true" THEN PyGetItem(Choice0(chunk), "delta") ELSE Raise
        hasC == IF delta = Raise THEN Raise ELSE PyIn("content", delta)
        cval == IF hasC # Raise /\ hasC.b
                THEN PyGetItem(delta, "content") ELSE Raise
    IN
    IF f = "raise" \/ fin = Raise THEN Step("raise", text, "None", <<>>)
    ELSE IF fin # JNull THEN Step("break", text, "None", <<>>)
    ELSE IF d = "raise" THEN Step("raise", text, "None", <<>>)
    ELSE IF d = "false" THEN Step("continue", text, "None", <<>>)
    ELSE IF delta = Raise \/ hasC = Raise THEN Step("raise", text, "None", <<>>)
    ELSE IF ~hasC.b THEN Step("continue", text, "None", <<>>)
    ELSE IF cval = Raise THEN Step("raise", text, "None", <<>>)
    ELSE IF ~PyTruthy(cval) THEN Step("continue", text, "None", <<>>)
    ELSE IF cval.t = "str"
         THEN Step("continue", text \o cval.s, "None", <<cval.s>>)
         ELSE Step("raise", text, "None", <<PyStr(cval)>>)

\* the answer loop's try block for one decoded chunk
OpenaiChunk(chunk, text) ==
    LET d == Choice0Has(chunk, "delta")
        delta == IF d = "true" THEN PyGetItem(Choice0(chunk), "delta") ELSE Raise
        hasC == IF delta = Raise THEN Raise ELSE PyIn("content", delta)
        cval == IF hasC # Raise /\ hasC.b
                THEN PyGetItem(delta, "content") ELSE Raise
    IN
    IF d = "raise" THEN Step("raise", text, "None", <<>>)
    ELSE IF d = "false" THEN Step("continue", text, "None", <<>>)
    ELSE IF delta = Raise \/ hasC = Raise THEN Step("raise", text, "None", <<>>)
    ELSE IF ~hasC.b THEN Step("continue", text, "None", <<>>)
    ELSE IF cval = Raise THEN Step("raise", text, "None", <<>>)
    ELSE IF ~PyTruthy(cval) THEN Step("continue", text, "None", <<>>)
    ELSE IF cval.t = "str"
         THEN Step("continue", text \o cval.s, "None", <<cval.s>>)
         ELSE Step("raise", text, "None", <<PyStr(cval)>>)

\* one iteration of the answer loop on one line of the response
OpenaiLine(line, text) ==
    IF ~line.prefix /\ line.body = BEmpty THEN Step("continue", text, "None", <<>>)
    ELSE IF ~line.prefix THEN Step("continue", text, "None", <<>>)
    ELSE IF line.body = BDone THEN Step("break", text, "None", <<>>)
    ELSE LET j == json_loads(line.body) IN
         CASE j.r = "JSONDecodeError" ->
                  Step("continue", text, "None", <<JSONErrorReport>>)
           [] j.r = "UnicodeDecodeError" -> Step("raise", text, "None", <<>>)
           [] j.r = "value" -> OpenaiChunk(j.v, text)

\* the reasoning loop run over a whole body: how the function ends ("return"
\* or "raise") and the text it returns
RECURSIVE DeepseekRun(_, _, _)
DeepseekRun(ls, text, seen) ==
    IF ls = <<>> THEN [how |-> "return", text |-> text]
    ELSE LET st == DeepseekLine(Head(ls), text, seen) IN
         CASE st.ctl = "continue" -> DeepseekRun(Tail(ls), st.text, st.seen)
           [] st.ctl \in {"break", "finished"} ->
                  [how |-> "return", text |-> st.text]
           [] st.ctl = "raise" -> [how |-> "raise", text |-> <<>>]

\* the answer loop run over a whole body
RECURSIVE OpenaiRun(_, _)
OpenaiRun(ls, text) ==
    IF ls = <<>> THEN [how |-> "return", text |-> text]
    ELSE LET st == OpenaiLine(Head(ls), text) IN
         CASE st.ctl = "continue" -> OpenaiRun(Tail(ls), st.text)
           [] st.ctl = "break" -> [how |-> "return", text |-> st.text]
           [] st.ctl = "raise" -> [how |-> "raise", text |-> <<>>]

(***************************************************************************)
(* ConversationHistory.                                                    *)
(***************************************************************************)
Turn(user_query, reasoning, ai_response, timestamp) ==
    [user_query |-> user_query, reasoning |-> reasoning,
     ai_response |-> ai_response, timestamp |-> timestamp]

Message(role, content) == [role |-> role, content |-> content]

\* Python's s[start:] for a list
PySliceFrom(s, start) ==
    LET from == IF start < 0
                THEN (IF Len(s) + start < 0 THEN 0 ELSE Len(s) + start)
                ELSE (IF start > Len(s) THEN Len(s) ELSE start)
    IN SubSeq(s, from + 1, Len(s))

\* add_interaction keeping the first `cap` Turns instead of the last
add_interaction_keep_oldest(h, cap, user_query, reasoning, ai_response, timestamp) ==
    LET appended == Append(h, Turn(user_query, reasoning, ai_response, timestamp))
    IN IF Len(appended) > cap THEN SubSeq(appended, 1, cap) ELSE appended

\* ConversationHistory.add_interaction: the history it leaves
add_interaction(h, cap, user_query, reasoning, ai_response, timestamp) ==
    LET appended == Append(h, Turn(user_query, reasoning, ai_response, timestamp))
    IN IF Len(appended) > cap THEN PySliceFrom(appended, 0 - cap) ELSE appended

\* get_conversation_for_deepseek replaying each Turn's reasoning in front of
\* its answer
get_conversation_for_deepseek_with_reasoning(h) ==
    [i \in 1..(2 * Len(h)) |->
        IF i % 2 = 1
        THEN Message("user", h[(i + 1) \div 2].user_query)
        ELSE Message("assistant",
                     h[i \div 2].reasoning \o h[i \div 2].ai_response)]

\* ConversationHistory.get_conversation_for_deepseek
get_conversation_for_deepseek(h) ==
    [i \in 1..(2 * Len(h)) |->
        IF i % 2 = 1
        THEN Message("user", h[(i + 1) \div 2].user_query)
        ELSE Message("assistant", h[i \div 2].ai_response)]

SystemPrompt == <<"<You are a helpful assistant. Use the provided reasoning ...>">>
AnswerPrefix == <<"<Answer the following question: >">>
AnswerMiddle == <<"<According to the reasoning prompt: >">>
AnswerSuffix == <<"<Based on this reasoning and our conversation history, ...>">>

\* get_conversation_for_openai putting the current reasoning into the system
\* message as well
get_conversation_for_openai_reasoning_first(h, current_query, current_reasoning) ==
    <<Message("system", SystemPrompt \o current_reasoning)>>
    \o [i \in 1..(2 * Len(h)) |->
          IF i % 2 = 1
          THEN Message("user", h[(i + 1) \div 2].user_query)
          ELSE Message("assistant", h[i \div 2].ai_response)]
    \o <<Message("user", AnswerPrefix \o current_query \o AnswerMiddle
                         \o current_reasoning \o AnswerSuffix)>>

\* ConversationHistory.get_conversation_for_openai
get_conversation_for_openai(h, current_query, current_reasoning) ==
    <<Message("system", SystemPrompt)>>
    \o [i \in 1..(2 * Len(h)) |->
          IF i % 2 = 1
          THEN Message("user", h[(i + 1) \div 2].user_query)
          ELSE Message("assistant", h[i \div 2].ai_response)]
    \o <<Message("user", AnswerPrefix \o current_query \o AnswerMiddle
                         \o current_reasoning \o AnswerSuffix)>>

\* the messages get_deepseek_reasoning_stream sends
DeepseekMessages(h, prompt) ==
    get_conversation_for_deepseek(h) \o <<Message("user", prompt)>>

\* what get_summary returns for a history without Turns
NoHistoryMessage == <<"<No conversation history yet.>">>

\* s[:50] followed by '...' if len(s) > 50
Truncated(s) ==
    IF Len(s) > SummaryWidth
    THEN SubSeq(s, 1, SummaryWidth) \o <<".", ".", ".">>
    ELSE s

\* time.strftime("%Y-%m-%d %H:%M:%S", time.localtime(timestamp))
strftime(timestamp) == <<"<%Y-%m-%d %H:%M:%S of ", ToString(timestamp), ">">>

\* the entries get_summary adds for the Turns of h from the i-th on
RECURSIVE SummaryEntries(_, _)
SummaryEntries(h, i) ==
    IF i > Len(h) THEN <<>>
    ELSE <<"\n", ToString(i), ". ">> \o strftime(h[i].timestamp)
         \o <<"\nUser: ">> \o Truncated(h[i].user_query)
         \o <<"\nAI: ">> \o Truncated(h[i].ai_response) \o <<"\n">>
         \o SummaryEntries(h, i + 1)

\* ConversationHistory.get_summary
get_summary(h) ==
    IF h = <<>> THEN NoHistoryMessage
    ELSE <<"Conversation History (", ToString(Len(h)), " interactions):\n">>
         \o SummaryEntries(h, 1)

(***************************************************************************)
(* Inputs: what the user types and what the endpoints send.                *)
(***************************************************************************)
SeqsUpTo(S, n) == UNION {[1..k -> S] : k \in 0..n}

\* str.lower(), on the characters the inputs are made of
LowerChar(c) ==
    CASE c = "E" -> "e" [] c = "X" -> "x" [] c = "I" -> "i" [] c = "T" -> "t"
      [] OTHER -> c
Lower(s) == [i \in 1..Len(s) |-> LowerChar(s[i])]

\* str.strip(): without its leading and trailing blanks
Strip(s) ==
    LET keep == {i \in 1..Len(s) : s[i] # " "}
        lo == CHOOSE i \in keep : \A j \in keep : i <= j
        hi == CHOOSE i \in keep : \A j \in keep : i >= j
    IN IF keep = {} THEN <<>> ELSE SubSeq(s, lo, hi)

CmdExit == <<"#","e","x","i","t">>
CmdHistory == <<"#","h","i","s","t","o","r","y">>
CmdClear == <<"#","c","l","e","a","r">>

UserInputs ==
    {CmdExit, <<"#","E","X","I","T">>, CmdHistory, CmdClear, <<>>, <<" ">>,
     <<" ">> \o CmdClear, <<"q">>}

\* the loop's chain of tests on an input, without the test for a blank one
ReactionWithoutBlankTest(user_input) ==
    IF Lower(user_input) = CmdExit THEN "exit"
    ELSE IF Lower(user_input) = CmdHistory THEN "history"
    ELSE IF Lower(user_input) = CmdClear THEN "clear"
    ELSE "question"

\* the loop's chain of tests on an input, in the code's order: which branch
\* the input takes
Reaction(user_input) ==
    IF Lower(user_input) = CmdExit THEN "exit"
    ELSE IF Lower(user_input) = CmdHistory THEN "history"
    ELSE IF Lower(user_input) = CmdClear THEN "clear"
    ELSE IF Strip(user_input) = <<>> THEN "blank"
    ELSE "question"

StatusCodes == {200, 401, 500}

\* data: {"choices": [{"delta": d}]}
DeltaLine(d) ==
    Line(TRUE, BJson(JObj([choices |-> JArr(<<JObj([delta |-> d])>>)])))
ReasoningDelta(s) == DeltaLine(JObj([reasoning_content |-> JStr(s)]))
AnswerDelta(s) == DeltaLine(JObj([content |-> JStr(s)]))
\* data: {"choices": [{"delta": {}, "finish_reason": "stop"}]}
FinishSignal ==
    Line(TRUE, BJson(JObj([choices |-> JArr(<<JObj(
        [delta |-> JObj(<<>>),
         finish_reason |-> JStr(<<"s","t","o","p">>)])>>)])))
StreamEnd == Line(TRUE, BDone)
Malformed == Line(TRUE, BText)
Undecodable == Line(TRUE, BBytes)
BlankLine == Line(FALSE, BEmpty)
CommentLine == Line(FALSE, BText)
\* data: 5
NumberPayload == Line(TRUE, BJson(JNum(5)))
\* data: {"choices": [null]}
NullChoice == Line(TRUE, BJson(JObj([choices |-> JArr(<<JNull>>)])))

\* data: {"choices": [{"delta": {"content": 5}}]}
NumberContent == DeltaLine(JObj([content |-> JNum(5)]))
\* data: {"choices": [{"delta": {"reasoning_content": 5}}]}
NumberReasoning == DeltaLine(JObj([reasoning_content |-> JNum(5)]))
\* data: {"choices": [{"delta": {"reasoning_content": "a", "content": "x"}}]}
BothDelta ==
    DeltaLine(JObj([reasoning_content |-> JStr(<<"a">>),
                    content |-> JStr(<<"x">>)]))

\* the response bodies of the interactive specification
RoundBodies ==
    {<<>>,
     <<ReasoningDelta(<<>>), StreamEnd>>,
     <<ReasoningDelta(<<"a">>), AnswerDelta(<<"x">>)>>,
     <<AnswerDelta(<<"x">>), StreamEnd>>,
     <<Malformed, FinishSignal>>,
     <<NumberPayload>>,
     <<Undecodable>>,
     <<NumberContent>>}

\* the lines a response is made of in the single-stage specification
StageLines ==
    {ReasoningDelta(<<"a">>), ReasoningDelta(<<"b">>), ReasoningDelta(<<>>),
     AnswerDelta(<<"x">>), AnswerDelta(<<>>), StreamEnd, FinishSignal,
     Malformed, Undecodable, BlankLine, CommentLine, NumberPayload,
     NullChoice, DeltaLine(JNull), NumberContent, NumberReasoning, BothDelta}

(***************************************************************************)
(* process_question: what it does with the value a stage returned.         *)
(***************************************************************************)
\* process_question without its first test: it goes on with None
AfterReasoningUnchecked(result) == "answer"

\* process_question taking an empty text for a failure (`if not ...`)
AfterReasoningFalsy(result) ==
    IF result = None \/ result = <<>> THEN "failed" ELSE "answer"

\* process_question without its second test: it commits None
AfterAnswerUnchecked(result) == "commit"

\* `if reasoning_content is None: return False`
AfterReasoning(result) == IF result = None THEN "failed" ELSE "answer"

\* `if gpt4o_answer is None: return False`
AfterAnswer(result) == IF result = None THEN "failed" ELSE "commit"

\* a response that is no longer referenced: closed if the code closed it or
\* read its body to the end, "dropped" (left to the runtime) if it was open
Dropped(conn) == IF conn = "open" THEN "dropped" ELSE conn

(***************************************************************************)
(* The interactive loop reading one input.                                 *)
(***************************************************************************)
\* the loop is left: the locals of the functions it called are gone
Unwound ==
    /\ user_prompt' = <<>>
    /\ reasoning_content' = <<>>
    /\ complete_answer' = <<>>
    /\ lines' = <<>>
    /\ consumed' = 0
    /\ last_reasoning_content_time' = "None"
    /\ stdout' = <<>>
    /\ messages' = <<>>

stage_vars ==
    <<user_prompt, reasoning_content, complete_answer, lines, consumed,
      last_reasoning_content_time, stdout, r_conn, a_conn, messages, posted,
      outcome, hist0>>

\* `if user_input.lower() == '#exit': break`
InputExit ==
    /\ pc = "input"
    /\ \E user_input \in UserInputs : Reaction(user_input) = "exit"
    /\ pc' = "exited"
    /\ Unwound
    /\ UNCHANGED <<history, max_history, r_conn, a_conn, posted, outcome,
                   hist0, rounds, log>>

\* `if user_input.lower() == '#history'`: the summary is shown
InputHistory ==
    /\ pc = "input"
    /\ \E user_input \in UserInputs : Reaction(user_input) = "history"
    /\ stdout' = <<get_summary(history)>>
    /\ UNCHANGED <<history, max_history, pc, user_prompt, reasoning_content,
                   complete_answer, lines, consumed,
                   last_reasoning_content_time, r_conn, a_conn, messages,
                   posted, outcome, hist0, rounds, log>>

\* '#clear' clearing the terminal only
InputClearOnlyScreen ==
    /\ pc = "input"
    /\ \E user_input \in UserInputs : Reaction(user_input) = "clear"
    /\ stdout' = <<>>
    /\ UNCHANGED <<history, max_history, pc, user_prompt, reasoning_content,
                   complete_answer, lines, consumed,
                   last_reasoning_content_time, r_conn, a_conn, messages,
                   posted, outcome, hist0, rounds, log>>

\* `if user_input.lower() == '#clear'`: a new ConversationHistory, and the
\* terminal is cleared
InputClear ==
    /\ pc = "input"
    /\ \E user_input \in UserInputs : Reaction(user_input) = "clear"
    /\ history' = <<>>
    /\ max_history' = CONVERSATION_MAX_HISTORY
    /\ log' = <<>>
    /\ hist0' = <<>>
    /\ outcome' = "none"
    /\ stdout' = <<>>
    /\ UNCHANGED <<pc, rounds, user_prompt, reasoning_content, complete_answer,
                   lines, consumed, last_reasoning_content_time, r_conn,
                   a_conn, messages, posted>>

\* `if not user_input.strip(): continue`
InputEmpty ==
    /\ pc = "input"
    /\ \E user_input \in UserInputs : Reaction(user_input) = "blank"
    /\ UNCHANGED vars

\* a question taken while the previous round is still in flight
InputQuestionWhileInFlight ==
    /\ pc \in {"input", "r_stream", "a_stream"}
    /\ rounds < MaxRounds
    /\ \E user_input \in UserInputs :
          /\ Reaction(user_input) = "question"
          /\ user_prompt' = user_input
    /\ pc' = "r_post"
    /\ rounds' = rounds + 1
    /\ hist0' = history
    /\ outcome' = "running"
    /\ posted' = {}
    /\ reasoning_content' = <<>>
    /\ complete_answer' = <<>>
    /\ lines' = <<>>
    /\ consumed' = 0
    /\ last_reasoning_content_time' = "None"
    /\ stdout' = <<>>
    /\ r_conn' = "none"
    /\ a_conn' = "none"
    /\ messages' = <<>>
    /\ UNCHANGED <<history, max_history, log>>

\* any other input: process_question(user_input, conversation_history)
InputQuestion ==
    /\ pc = "input"
    /\ rounds < MaxRounds
    /\ \E user_input \in UserInputs :
          /\ Reaction(user_input) = "question"
          /\ user_prompt' = user_input
    /\ pc' = "r_post"
    /\ rounds' = rounds + 1
    /\ hist0' = history
    /\ outcome' = "running"
    /\ posted' = {}
    /\ reasoning_content' = <<>>
    /\ complete_answer' = <<>>
    /\ lines' = <<>>
    /\ consumed' = 0
    /\ last_reasoning_content_time' = "None"
    /\ stdout' = <<>>
    /\ r_conn' = "none"
    /\ a_conn' = "none"
    /\ messages' = <<>>
    /\ UNCHANGED <<history, max_history, log>>

(***************************************************************************)
(* get_deepseek_reasoning_stream, called by process_question.              *)
(***************************************************************************)
\* get_deepseek_reasoning_stream without its `response.close()`
DeepseekConnNeverClosed(how) ==
    IF how = "exhausted" THEN "closed" ELSE Dropped("open")

\* the response when the function returns after leaving its loop by `how`:
\* response.close() is called only when reasoning_finished is set; a body
\* read to its end has released its connection
DeepseekConnAtReturn(how) ==
    CASE how = "finished" -> "closed"
      [] how = "exhausted" -> "closed"
      [] how = "break" -> Dropped("open")

\* the function returns `result`; process_question goes on or gives up
DeepseekReturn(result, conn, n, out, seen) ==
    /\ reasoning_content' = result
    /\ r_conn' = conn
    /\ consumed' = n
    /\ stdout' = stdout \o out
    /\ last_reasoning_content_time' = seen
    /\ outcome' = IF result = None THEN "reasoning_failed" ELSE outcome
    /\ pc' = IF AfterReasoning(result) = "answer" THEN "a_post" ELSE "input"
    /\ UNCHANGED <<history, max_history, user_prompt, complete_answer, a_conn,
                   hist0, rounds, log>>

\* requests.post raises: the exception reaches the loop's `except Exception`
DeepseekPostFails ==
    /\ pc = "r_post"
    /\ messages' = DeepseekMessages(history, user_prompt)
    /\ posted' = posted \cup {"deepseek"}
    /\ pc' = "input"
    /\ outcome' = "transport_error"
    /\ UNCHANGED <<history, max_history, user_prompt, reasoning_content,
                   complete_answer, lines, consumed,
                   last_reasoning_content_time, stdout, r_conn, a_conn, hist0,
                   rounds, log>>

\* the response's status is not 200: its text is shown, None is returned
DeepseekStatusError ==
    /\ pc = "r_post"
    /\ \E status \in StatusCodes : status # 200
    /\ messages' = DeepseekMessages(history, user_prompt)
    /\ posted' = posted \cup {"deepseek"}
    /\ lines' = <<>>
    /\ DeepseekReturn(None, "closed", 0, <<>>, "None")

\* get_deepseek_reasoning_stream appending the current question to the
\* history's own list instead of a new one
DeepseekStreamAliasing ==
    /\ pc = "r_post"
    /\ \E status \in StatusCodes : status = 200
    /\ \E body \in RoundBodies : lines' = body
    /\ messages' = DeepseekMessages(history, user_prompt)
    /\ history' = Append(history, Message("user", user_prompt))
    /\ posted' = posted \cup {"deepseek"}
    /\ pc' = "r_stream"
    /\ consumed' = 0
    /\ reasoning_content' = <<>>
    /\ last_reasoning_content_time' = "None"
    /\ stdout' = <<>>
    /\ r_conn' = "open"
    /\ UNCHANGED <<max_history, user_prompt, complete_answer, a_conn,
                   outcome, hist0, rounds, log>>

\* the response's status is 200: the loop over its lines starts
DeepseekStream ==
    /\ pc = "r_post"
    /\ \E status \in StatusCodes : status = 200
    /\ \E body \in RoundBodies : lines' = body
    /\ messages' = DeepseekMessages(history, user_prompt)
    /\ posted' = posted \cup {"deepseek"}
    /\ pc' = "r_stream"
    /\ consumed' = 0
    /\ reasoning_content' = <<>>
    /\ last_reasoning_content_time' = "None"
    /\ stdout' = <<>>
    /\ r_conn' = "open"
    /\ UNCHANGED <<history, max_history, user_prompt, complete_answer, a_conn,
                   outcome, hist0, rounds, log>>

\* one iteration of `for line in response.iter_lines()`
DeepseekNext ==
    /\ pc = "r_stream"
    /\ consumed < Len(lines)
    /\ LET st == DeepseekLine(lines[consumed + 1], reasoning_content,
                              last_reasoning_content_time)
       IN CASE st.ctl = "continue" ->
                 /\ consumed' = consumed + 1
                 /\ reasoning_content' = st.text
                 /\ last_reasoning_content_time' = st.seen
                 /\ stdout' = stdout \o st.out
                 /\ UNCHANGED <<history, max_history, pc, user_prompt,
                                complete_answer, r_conn, a_conn, outcome,
                                hist0, rounds, log>>
            [] st.ctl \in {"break", "finished"} ->
                 DeepseekReturn(st.text, DeepseekConnAtReturn(st.ctl),
                                consumed + 1, st.out, st.seen)
            [] st.ctl = "raise" ->
                 /\ consumed' = consumed + 1
                 /\ last_reasoning_content_time' = st.seen
                 /\ stdout' = stdout \o st.out
                 /\ r_conn' = Dropped(r_conn)
                 /\ pc' = "input"
                 /\ outcome' = "exception"
                 /\ UNCHANGED <<history, max_history, user_prompt,
                                reasoning_content, complete_answer, a_conn,
                                hist0, rounds, log>>
    /\ UNCHANGED <<lines, messages, posted>>

\* iter_lines is exhausted: the loop ends and the text is returned
DeepseekExhausted ==
    /\ pc = "r_stream"
    /\ consumed = Len(lines)
    /\ DeepseekReturn(reasoning_content, DeepseekConnAtReturn("exhausted"),
                      consumed, <<>>, last_reasoning_content_time)
    /\ UNCHANGED <<lines, messages, posted>>

(***************************************************************************)
(* get_openai_answer_stream, called by process_question, and the commit.   *)
(***************************************************************************)
\* the response when the function returns: it is never closed by the code; a
\* body read to its end has released its connection
OpenaiConnAtReturn(how) ==
    CASE how = "exhausted" -> "closed"
      [] how = "break" -> Dropped("open")

\* the function returns `result`; process_question commits or gives up; the
\* clock of the session, time.time(), is advanced by its rounds
OpenaiReturn(result, conn, n, out) ==
    /\ complete_answer' = result
    /\ a_conn' = conn
    /\ consumed' = n
    /\ stdout' = stdout \o out
    /\ pc' = "input"
    /\ outcome' = IF outcome # "running" THEN outcome
                  ELSE IF result = None THEN "answer_failed" ELSE "succeeded"
    /\ IF AfterAnswer(result) = "commit"
       THEN \E timestamp \in {rounds} :
              /\ history' = add_interaction(history, max_history, user_prompt,
                                            reasoning_content, result, timestamp)
              /\ log' = Append(log, Turn(user_prompt, reasoning_content,
                                         result, timestamp))
       ELSE UNCHANGED <<history, log>>
    /\ UNCHANGED <<max_history, user_prompt, reasoning_content,
                   last_reasoning_content_time, r_conn, hist0, rounds>>

\* the answer request fails and the round's question and reasoning are
\* stored all the same, with an empty answer
OpenaiPostFailsCommitsPartial ==
    /\ pc = "a_post"
    /\ messages' = get_conversation_for_openai(history, user_prompt,
                                               reasoning_content)
    /\ posted' = posted \cup {"openai"}
    /\ pc' = "input"
    /\ outcome' = "transport_error"
    /\ history' = add_interaction(history, max_history, user_prompt,
                                  reasoning_content, <<>>, 1)
    /\ UNCHANGED <<max_history, user_prompt, reasoning_content,
                   complete_answer, lines, consumed,
                   last_reasoning_content_time, stdout, r_conn, a_conn, hist0,
                   rounds, log>>

\* requests.post raises: the exception reaches the loop's `except Exception`
OpenaiPostFails ==
    /\ pc = "a_post"
    /\ messages' = get_conversation_for_openai(history, user_prompt,
                                               reasoning_content)
    /\ posted' = posted \cup {"openai"}
    /\ pc' = "input"
    /\ outcome' = "transport_error"
    /\ UNCHANGED <<history, max_history, user_prompt, reasoning_content,
                   complete_answer, lines, consumed,
                   last_reasoning_content_time, stdout, r_conn, a_conn, hist0,
                   rounds, log>>

\* the response's status is not 200: its text is shown, None is returned
OpenaiStatusError ==
    /\ pc = "a_post"
    /\ \E status \in StatusCodes : status # 200
    /\ messages' = get_conversation_for_openai(history, user_prompt,
                                               reasoning_content)
    /\ posted' = posted \cup {"openai"}
    /\ lines' = <<>>
    /\ OpenaiReturn(None, "closed", 0, <<>>)

\* the response's status is 200: the loop over its lines starts
OpenaiStream ==
    /\ pc = "a_post"
    /\ \E status \in StatusCodes : status = 200
    /\ \E body \in RoundBodies : lines' = body
    /\ messages' = get_conversation_for_openai(history, user_prompt,
                                               reasoning_content)
    /\ posted' = posted \cup {"openai"}
    /\ pc' = "a_stream"
    /\ consumed' = 0
    /\ complete_answer' = <<>>
    /\ stdout' = <<>>
    /\ a_conn' = "open"
    /\ UNCHANGED <<history, max_history, user_prompt, reasoning_content,
                   last_reasoning_content_time, r_conn, outcome, hist0, rounds,
                   log>>

\* one iteration of `for line in response.iter_lines()`
OpenaiNext ==
    /\ pc = "a_stream"
    /\ consumed < Len(lines)
    /\ LET st == OpenaiLine(lines[consumed + 1], complete_answer)
       IN CASE st.ctl = "continue" ->
                 /\ consumed' = consumed + 1
                 /\ complete_answer' = st.text
                 /\ stdout' = stdout \o st.out
                 /\ UNCHANGED <<history, max_history, pc, user_prompt,
                                reasoning_content,
                                last_reasoning_content_time, r_conn, a_conn,
                                outcome, hist0, rounds, log>>
            [] st.ctl = "break" ->
                 OpenaiReturn(st.text, OpenaiConnAtReturn(st.ctl),
                              consumed + 1, st.out)
            [] st.ctl = "raise" ->
                 /\ consumed' = consumed + 1
                 /\ stdout' = stdout \o st.out
                 /\ a_conn' = Dropped(a_conn)
                 /\ pc' = "input"
                 /\ outcome' = "exception"
                 /\ UNCHANGED <<history, max_history, user_prompt,
                                reasoning_content, complete_answer,
                                last_reasoning_content_time, r_conn, hist0,
                                rounds, log>>
    /\ UNCHANGED <<lines, messages, posted>>

\* iter_lines is exhausted: the loop ends and the text is returned
OpenaiExhausted ==
    /\ pc = "a_stream"
    /\ consumed = Len(lines)
    /\ OpenaiReturn(complete_answer, OpenaiConnAtReturn("exhausted"),
                    consumed, <<>>)
    /\ UNCHANGED <<lines, messages, posted>>

(***************************************************************************)
(* What can cut a round short.                                             *)
(***************************************************************************)
\* iter_lines raises (the transport fails while the body is read): the
\* exception reaches the loop's `except Exception`
IterLinesRaises ==
    /\ pc \in {"r_stream", "a_stream"}
    /\ pc' = "input"
    /\ outcome' = "stream_error"
    /\ r_conn' = Dropped(r_conn)
    /\ a_conn' = Dropped(a_conn)
    /\ UNCHANGED <<history, max_history, user_prompt, reasoning_content,
                   complete_answer, lines, consumed,
                   last_reasoning_content_time, stdout, messages, posted,
                   hist0, rounds, log>>

\* Ctrl-C handled like any exception: the loop goes on
KeyboardInterruptResumes ==
    /\ pc \in {"input", "r_post", "r_stream", "a_post", "a_stream"}
    /\ pc' = "input"
    /\ outcome' = IF pc = "input" THEN outcome ELSE "interrupted"
    /\ r_conn' = Dropped(r_conn)
    /\ a_conn' = Dropped(a_conn)
    /\ Unwound
    /\ UNCHANGED <<history, max_history, posted, hist0, rounds, log>>

\* Ctrl-C: `except KeyboardInterrupt: ... break`
KeyboardInterrupt ==
    /\ pc \in {"input", "r_post", "r_stream", "a_post", "a_stream"}
    /\ pc' = "exited"
    /\ outcome' = IF pc = "input" THEN outcome ELSE "interrupted"
    /\ r_conn' = Dropped(r_conn)
    /\ a_conn' = Dropped(a_conn)
    /\ Unwound
    /\ UNCHANGED <<history, max_history, posted, hist0, rounds, log>>

(***************************************************************************)
(* The interactive session.                                                *)
(***************************************************************************)
Init ==
    /\ history = <<>>
    /\ max_history = CONVERSATION_MAX_HISTORY
    /\ pc = "input"
    /\ user_prompt = <<>>
    /\ reasoning_content = <<>>
    /\ complete_answer = <<>>
    /\ lines = <<>>
    /\ consumed = 0
    /\ last_reasoning_content_time = "None"
    /\ stdout = <<>>
    /\ r_conn = "none"
    /\ a_conn = "none"
    /\ messages = <<>>
    /\ posted = {}
    /\ outcome = "none"
    /\ hist0 = <<>>
    /\ rounds = 0
    /\ log = <<>>

Next ==
    \/ InputExit
    \/ InputHistory
    \/ InputClear
    \/ InputEmpty
    \/ InputQuestion
    \/ DeepseekPostFails
    \/ DeepseekStatusError
    \/ DeepseekStream
    \/ DeepseekNext
    \/ DeepseekExhausted
    \/ OpenaiPostFails
    \/ OpenaiStatusError
    \/ OpenaiStream
    \/ OpenaiNext
    \/ OpenaiExhausted
    \/ IterLinesRaises
    \/ KeyboardInterrupt

Spec == Init /\ [][Next]_vars

(***************************************************************************)
(* One stage alone: a round whose stage has just received a 200 response   *)
(* with any body of up to MaxStageLines lines.                             *)
(***************************************************************************)
StageBodies == SeqsUpTo(StageLines, MaxStageLines)

StageInit ==
    /\ pc \in {"r_stream", "a_stream"}
    /\ lines \in StageBodies
    /\ history = <<>>
    /\ max_history = CONVERSATION_MAX_HISTORY
    /\ user_prompt = <<"q">>
    /\ reasoning_content = <<>>
    /\ complete_answer = <<>>
    /\ consumed = 0
    /\ last_reasoning_content_time = "None"
    /\ stdout = <<>>
    /\ r_conn = (IF pc = "r_stream" THEN "open" ELSE "closed")
    /\ a_conn = (IF pc = "r_stream" THEN "none" ELSE "open")
    /\ messages = (IF pc = "r_stream"
                   THEN DeepseekMessages(<<>>, <<"q">>)
                   ELSE get_conversation_for_openai(<<>>, <<"q">>, <<>>))
    /\ posted = (IF pc = "r_stream" THEN {"deepseek"} ELSE {"deepseek", "openai"})
    /\ outcome = "running"
    /\ hist0 = <<>>
    /\ rounds = 1
    /\ log = <<>>

StageNext ==
    \/ DeepseekNext
    \/ DeepseekExhausted
    \/ OpenaiNext
    \/ OpenaiExhausted

SpecStage == StageInit /\ [][StageNext]_vars

(***************************************************************************)
(* ConversationHistory alone: an object constructed with any capacity      *)
(* 0..MaxCap, given up to MaxCommits interactions.                         *)
(***************************************************************************)
HistoryInit ==
    /\ history = <<>>
    /\ max_history \in 0..MaxCap
    /\ pc = "input"
    /\ user_prompt = <<>>
    /\ reasoning_content = <<>>
    /\ complete_answer = <<>>
    /\ lines = <<>>
    /\ consumed = 0
    /\ last_reasoning_content_time = "None"
    /\ stdout = <<>>
    /\ r_conn = "none"
    /\ a_conn = "none"
    /\ messages = <<>>
    /\ posted = {}
    /\ outcome = "none"
    /\ hist0 = <<>>
    /\ rounds = 0
    /\ log = <<>>

\* conversation_history.add_interaction(user_query, reasoning, ai_response)
AddInteraction ==
    /\ Len(log) < MaxCommits
    /\ \E user_query \in {<<"q">>, <<"p">>}, timestamp \in 1..MaxTime :
          /\ history' = add_interaction(history, max_history, user_query,
                                        <<"a">>, <<"x">>, timestamp)
          /\ log' = Append(log, Turn(user_query, <<"a">>, <<"x">>, timestamp))
    /\ UNCHANGED <<max_history, pc, rounds>>
    /\ UNCHANGED stage_vars

SpecHistory == HistoryInit /\ [][AddInteraction]_vars

(***************************************************************************)
(* The read operations of ConversationHistory alone: an object of the      *)
(* loop's capacity holding any history of up to MaxTurns Turns, asked for  *)
(* the messages of a reasoning request, of an answer request, and for its  *)
(* summary.                                                                *)
(***************************************************************************)
Questions == {<<"q">>, <<"p">>}
Reasonings == {<<>>, <<"a">>}
Answers == {<<"x">>, <<"y">>}

ContextTurns ==
    {Turn(q, r, a, t) : q \in Questions, r \in Reasonings, a \in Answers,
                        t \in 1..MaxTime}

ContextInit ==
    /\ history \in SeqsUpTo(ContextTurns, MaxTurns)
    /\ max_history = CONVERSATION_MAX_HISTORY
    /\ pc = "input"
    /\ user_prompt = <<>>
    /\ reasoning_content = <<>>
    /\ complete_answer = <<>>
    /\ lines = <<>>
    /\ consumed = 0
    /\ last_reasoning_content_time = "None"
    /\ stdout = <<>>
    /\ r_conn = "none"
    /\ a_conn = "none"
    /\ messages = <<>>
    /\ posted = {}
    /\ outcome = "none"
    /\ hist0 = history
    /\ rounds = 0
    /\ log = history

\* get_deepseek_reasoning_stream builds the messages of its request
BuildReasoningRequest ==
    /\ \E prompt \in Questions :
          /\ user_prompt' = prompt
          /\ messages' = DeepseekMessages(history, prompt)
    /\ posted' = {"deepseek"}
    /\ UNCHANGED <<history, max_history, pc, reasoning_content,
                   complete_answer, lines, consumed,
                   last_reasoning_content_time, stdout, r_conn, a_conn,
                   outcome, hist0, rounds, log>>

\* get_openai_answer_stream builds the messages of its request
BuildAnswerRequest ==
    /\ \E prompt \in Questions, reasoning \in Reasonings :
          /\ user_prompt' = prompt
          /\ reasoning_content' = reasoning
          /\ messages' = get_conversation_for_openai(history, prompt, reasoning)
    /\ posted' = {"deepseek", "openai"}
    /\ UNCHANGED <<history, max_history, pc, complete_answer, lines, consumed,
                   last_reasoning_content_time, stdout, r_conn, a_conn,
                   outcome, hist0, rounds, log>>

\* print(conversation_history.get_summary())
ShowSummary ==
    /\ stdout' = <<get_summary(history)>>
    /\ UNCHANGED <<history, max_history, pc, user_prompt, reasoning_content,
                   complete_answer, lines, consumed,
                   last_reasoning_content_time, r_conn, a_conn, messages,
                   posted, outcome, hist0, rounds, log>>

ContextNext ==
    \/ BuildReasoningRequest
    \/ BuildAnswerRequest
    \/ ShowSummary

SpecContext == ContextInit /\ [][ContextNext]_vars

(***************************************************************************)
(* The claims.                                                             *)
(***************************************************************************)
InFlight == pc \in {"r_post", "r_stream", "a_post", "a_stream"}
RoundOver == pc \in {"input", "exited"} /\ outcome \notin {"none", "running"}

\* the history is hist0 with exactly one Turn appended
OneTurnAppended ==
    /\ Len(history) = Len(hist0) + 1
    /\ SubSeq(history, 1, Len(hist0)) = hist0

\* C1: a round appends a Turn if and only if both of its stages returned a
\* text: while the round is in flight the history is the one it started with,
\* a round that ended otherwise left it so, a round whose two stages succeeded
\* appended exactly one Turn holding its question, its reasoning and its
\* answer, and no Turn lacks its reasoning or its answer.
C1_AllOrNothing ==
    /\ InFlight => history = hist0
    /\ RoundOver /\ outcome # "succeeded" => history = hist0
    /\ RoundOver /\ outcome = "succeeded" => OneTurnAppended
    /\ pc = "input" /\ outcome = "succeeded" =>
          /\ history[Len(history)].user_query = user_prompt
          /\ history[Len(history)].reasoning = reasoning_content
          /\ history[Len(history)].ai_response = complete_answer
    /\ \A i \in 1..Len(history) :
          history[i].reasoning # None /\ history[i].ai_response # None

\* a round failed in its answer stage after an earlier round had committed
C1_Witness ==
    /\ pc = "input"
    /\ outcome = "answer_failed"
    /\ Len(history) = 1
    /\ history[1].reasoning = <<"a">>
    /\ history[1].ai_response = <<"x">>

\* C2: when the reasoning response's status is not a success, the round is
\* over at once: no request went to the answer endpoint, no answer response
\* exists and the history is the one the round started with.
C2_NoAnswerAfterFailedReasoning ==
    outcome = "reasoning_failed" =>
        /\ pc \in {"input", "exited"}
        /\ posted = {"deepseek"}
        /\ a_conn = "none"
        /\ history = hist0

\* the second round's reasoning request got a non-success status
C2_Witness ==
    /\ outcome = "reasoning_failed"
    /\ pc = "input"
    /\ Len(history) = 1

(***************************************************************************)
(* The events of section 4.1, read off a line's JSON document.             *)
(***************************************************************************)
\* the line is data: {"choices": [{...}, ...]}; Choice is its first choice
HasChoice(line) ==
    /\ line.prefix
    /\ line.body.b = "json"
    /\ line.body.v.t = "obj"
    /\ "choices" \in DOMAIN line.body.v.o
    /\ line.body.v.o.choices.t = "arr"
    /\ Len(line.body.v.o.choices.a) > 0
    /\ line.body.v.o.choices.a[1].t = "obj"
Choice(line) == line.body.v.o.choices.a[1].o

IsFinishSignal(line) ==
    /\ HasChoice(line)
    /\ "finish_reason" \in DOMAIN Choice(line)
    /\ Choice(line).finish_reason # JNull

HasDelta(line) ==
    /\ HasChoice(line)
    /\ ~IsFinishSignal(line)
    /\ "delta" \in DOMAIN Choice(line)
    /\ Choice(line).delta.t = "obj"
Delta(line) == Choice(line).delta.o

IsReasoningDelta(line) ==
    /\ HasDelta(line)
    /\ "reasoning_content" \in DOMAIN Delta(line)
    /\ Delta(line).reasoning_content.t = "str"

IsAnswerDelta(line) ==
    /\ HasDelta(line)
    /\ "reasoning_content" \notin DOMAIN Delta(line)
    /\ "content" \in DOMAIN Delta(line)
    /\ Delta(line).content.t = "str"

\* the texts of the ReasoningDeltas of ls, concatenated
RECURSIVE ReasoningTexts(_)
ReasoningTexts(ls) ==
    IF ls = <<>> THEN <<>>
    ELSE (IF IsReasoningDelta(Head(ls))
          THEN Delta(Head(ls)).reasoning_content.s ELSE <<>>)
         \o ReasoningTexts(Tail(ls))

\* the place of the first AnswerDelta that follows a ReasoningDelta, or 0
FirstAnswerAfterReasoning(ls) ==
    LET K == {k \in 1..Len(ls) :
                /\ IsAnswerDelta(ls[k])
                /\ \E j \in 1..(k - 1) : IsReasoningDelta(ls[j])}
    IN IF K = {} THEN 0 ELSE CHOOSE k \in K : \A j \in K : k <= j

\* the state belongs to the reasoning stage (running, returned or raised)
OfReasoningStage == posted = {"deepseek"}
\* the state belongs to the answer stage
OfAnswerStage == posted = {"deepseek", "openai"}

\* C3: in the reasoning stage, no line after the first AnswerDelta that
\* follows a ReasoningDelta is ever consumed, and once that AnswerDelta is
\* consumed the function has returned, the response is closed and the text
\* returned is the concatenation of the reasoning texts before it.
C3_EarlyTermination ==
    OfReasoningStage =>
        LET k == FirstAnswerAfterReasoning(lines) IN
        k # 0 =>
            /\ consumed <= k
            /\ consumed = k =>
                  /\ pc = "a_post"
                  /\ r_conn = "closed"
                  /\ reasoning_content = ReasoningTexts(SubSeq(lines, 1, k - 1))

\* the AnswerDelta came second and the third line was never consumed
C3_Witness ==
    /\ lines = <<ReasoningDelta(<<"a">>), AnswerDelta(<<"x">>),
                 ReasoningDelta(<<"b">>)>>
    /\ pc = "a_post"
    /\ consumed = 2
    /\ r_conn = "closed"
    /\ reasoning_content = <<"a">>

\* two reasoning texts are returned concatenated
C3_WitnessConcat ==
    /\ lines = <<ReasoningDelta(<<"a">>), ReasoningDelta(<<"b">>),
                 AnswerDelta(<<"x">>)>>
    /\ pc = "a_post"
    /\ r_conn = "closed"
    /\ reasoning_content = <<"a", "b">>

\* C4 (as claimed, already on the paths on which the stage returns): once
\* the reasoning stage has returned its response is closed, and once the
\* answer stage has returned its response is closed.
C4_ConnectionsReleased ==
    /\ pc \in {"a_post", "a_stream"} => r_conn = "closed"
    /\ outcome \in {"reasoning_failed", "answer_failed", "succeeded"} =>
          /\ r_conn = "closed"
          /\ a_conn \in {"none", "closed"}

\* the last n elements of s
LastN(s, n) == SubSeq(s, Len(s) - n + 1, Len(s))
Min(a, b) == IF a <= b THEN a ELSE b

\* C5: with a capacity of at least 1, after N commits the history holds
\* exactly the last min(N, capacity) Turns committed, in commit order.
C5_KeepsMostRecent ==
    max_history >= 1 =>
        history = LastN(log, Min(Len(log), max_history))

\* four commits into a history of capacity 2: the two oldest are gone
C5_Witness ==
    /\ max_history = 2
    /\ Len(log) = 4
    /\ history = <<log[3], log[4]>>
    /\ log[3] # log[4]
    /\ log[1] # log[3]

\* C6 (as claimed): for every capacity from 0 up, the history never holds
\* more Turns than its capacity.
C6_LengthWithinCapacity == Len(history) <= max_history

\* json.loads does not return a value for the line
FailsDecoding(line) ==
    line.prefix /\ line.body # BDone /\ json_loads(line.body).r # "value"

\* json.loads raises JSONDecodeError for the line
RaisesJSONDecodeError(line) ==
    line.prefix /\ line.body # BDone
    /\ json_loads(line.body).r = "JSONDecodeError"

WithoutFailing(ls) == SelectSeq(ls, LAMBDA l : ~FailsDecoding(l))
WithoutJSONDecodeErrors(ls) == SelectSeq(ls, LAMBDA l : ~RaisesJSONDecodeError(l))

\* the stage of this state has ended the way `run` says a run ends
EndedAs(run, text) ==
    \/ run.how = "return" /\ outcome # "exception" /\ run.text = text
    \/ run.how = "raise" /\ outcome = "exception"

ReasoningStageEnded ==
    OfReasoningStage /\ (pc = "a_post" \/ (pc = "input" /\ outcome = "exception"))
AnswerStageEnded ==
    OfAnswerStage /\ pc = "input" /\ outcome \in {"succeeded", "exception"}

\* C7 (as claimed): a stage ends as it would end on the same body without
\* the lines that fail JSON decoding, and with the same text.
C7_MalformedLinesIgnored ==
    /\ ReasoningStageEnded =>
          EndedAs(DeepseekRun(WithoutFailing(lines), <<>>, "None"),
                  reasoning_content)
    /\ AnswerStageEnded =>
          EndedAs(OpenaiRun(WithoutFailing(lines), <<>>), complete_answer)

\* what holds of the lines for which json.loads raises JSONDecodeError
MalformedJSONIgnored ==
    /\ ReasoningStageEnded =>
          EndedAs(DeepseekRun(WithoutJSONDecodeErrors(lines), <<>>, "None"),
                  reasoning_content)
    /\ AnswerStageEnded =>
          EndedAs(OpenaiRun(WithoutJSONDecodeErrors(lines), <<>>),
                  complete_answer)

\* C8 (as claimed): a round in which both endpoints answered with status 200,
\* no transport failure occurred and no interrupt arrived commits its Turn,
\* whatever the lines of the two bodies hold; already so when every line of
\* the answer body decodes as JSON.
C8_ContentNeverFailsARound ==
    /\ RoundOver
    /\ pc = "input"
    /\ r_conn # "none"
    /\ a_conn # "none"
    /\ \A i \in 1..Len(lines) : ~FailsDecoding(lines[i])
    /\ outcome \notin {"reasoning_failed", "answer_failed", "transport_error",
                       "stream_error", "interrupted"}
    => outcome = "succeeded"

\* C9 (as claimed): after an interrupt that arrived while a round was in
\* flight, no Turn was committed and the loop is back at its prompt.
C9_InterruptResumes ==
    outcome = "interrupted" => pc = "input" /\ history = hist0

\* C9 (amended): after an interrupt that arrived while a round was in flight,
\* no Turn was committed, the history is the one the round started with, and
\* the session has ended: the loop is left and nothing more can happen.
C9_InterruptEndsSession ==
    outcome = "interrupted" =>
        /\ pc = "exited"
        /\ history = hist0
        /\ ~ENABLED Next

\* the second round was interrupted; the first round's Turn is still there
C9_Witness ==
    /\ outcome = "interrupted"
    /\ pc = "exited"
    /\ rounds = 2
    /\ Len(history) = 1

\* C10: an empty reasoning text is a success.  The reasoning stage returns
\* the empty text for a 200 response with no line and for [ReasoningDelta(""),
\* StreamEnd]; a round whose reasoning stage returned the empty text goes on
\* to the answer stage; only a None makes the round ReasoningFailed; and a
\* committed Turn holds the reasoning text the stage returned, empty or not.
C10_EmptyReasoningSucceeds ==
    /\ pc = "a_post"
       /\ lines \in {<<>>, <<ReasoningDelta(<<>>), StreamEnd>>}
       => reasoning_content = <<>>
    /\ outcome = "running" /\ r_conn \in {"closed", "dropped"}
       /\ reasoning_content = <<>>
       => pc \in {"a_post", "a_stream"}
    /\ outcome = "reasoning_failed" /\ pc = "input" => reasoning_content = None
    /\ pc = "input" /\ outcome = "succeeded" =>
          history[Len(history)].reasoning = reasoning_content

\* a Turn with empty reasoning and a non-empty answer was committed
C10_Witness ==
    /\ pc = "input"
    /\ outcome = "succeeded"
    /\ reasoning_content = <<>>
    /\ history[Len(history)].reasoning = <<>>
    /\ history[Len(history)].ai_response = <<"x">>

(***************************************************************************)
(* What the answer loop reads off a line: the text of delta['content'],    *)
(* whatever else the payload carries.                                      *)
(***************************************************************************)
HasContent(line) ==
    /\ HasChoice(line)
    /\ "delta" \in DOMAIN Choice(line)
    /\ Choice(line).delta.t = "obj"
    /\ "content" \in DOMAIN Choice(line).delta.o
    /\ Choice(line).delta.o.content.t = "str"

\* the content texts of ls, concatenated
RECURSIVE ContentTexts(_)
ContentTexts(ls) ==
    IF ls = <<>> THEN <<>>
    ELSE (IF HasContent(Head(ls))
          THEN Choice(Head(ls)).delta.o.content.s ELSE <<>>)
         \o ContentTexts(Tail(ls))

\* C11 (as claimed): in the answer stage, once a payload with a non-null
\* finish_reason has been consumed the streamer has stopped: that payload is
\* the last line consumed and the loop is left.
C11_FinishStopsAnswerStage ==
    OfAnswerStage =>
        \A i \in 1..consumed :
            IsFinishSignal(lines[i]) => consumed = i /\ pc # "a_stream"

\* C11 (amended): in the answer stage a payload with a non-null finish_reason
\* is no stop.  The loop is left without an exception only at the [DONE]
\* sentinel or when the body is exhausted; after a finish payload is consumed
\* the loop is still running while lines remain; and the accumulated answer is the concatenation
\* of the content texts of all lines consumed, those after a finish payload
\* included.
C11_FinishDoesNotStopAnswerStage ==
    OfAnswerStage /\ outcome # "exception" =>
        /\ pc = "input" /\ consumed < Len(lines) =>
              consumed >= 1 /\ lines[consumed] = StreamEnd
        /\ consumed >= 1 /\ consumed < Len(lines)
           /\ IsFinishSignal(lines[consumed]) => pc = "a_stream"
        /\ complete_answer = ContentTexts(SubSeq(lines, 1, consumed))

\* an AnswerDelta consumed after a finish payload was forwarded and appended
C11_Witness ==
    /\ OfAnswerStage
    /\ lines = <<AnswerDelta(<<"x">>), FinishSignal, AnswerDelta(<<"x">>)>>
    /\ pc = "input"
    /\ outcome = "succeeded"
    /\ consumed = 3
    /\ complete_answer = <<"x", "x">>
    /\ stdout = << <<"x">>, <<"x">> >>

(***************************************************************************)
(* The messages of the two requests.                                       *)
(***************************************************************************)
\* the text appears in the content of one of the messages ms
AppearsIn(text, ms) ==
    \E j \in 1..Len(ms) : IsSubstring(text, ms[j].content)

\* ms is user:q1, assistant:a1, ..., user:qn, assistant:an for the Turns of h
AlternatesOver(ms, h) ==
    /\ Len(ms) = 2 * Len(h)
    /\ \A i \in 1..Len(h) :
          /\ ms[2 * i - 1] = Message("user", h[i].user_query)
          /\ ms[2 * i] = Message("assistant", h[i].ai_response)

\* C12: for a history of n Turns, get_conversation_for_deepseek returns
\* exactly 2n messages, for each Turn in order a user message with its
\* question and an assistant message with its answer; no non-empty stored
\* reasoning text appears in them; and the messages of the reasoning request
\* are this list followed by one user message with the current question.
C12_ReasoningContext ==
    /\ AlternatesOver(get_conversation_for_deepseek(history), history)
    /\ \A i \in 1..Len(history) :
          history[i].reasoning # <<>> =>
              ~AppearsIn(history[i].reasoning,
                         get_conversation_for_deepseek(history))
    /\ posted = {"deepseek"} =>
          messages = get_conversation_for_deepseek(history)
                     \o <<Message("user", user_prompt)>>

\* the reasoning request for a history of two Turns with different
\* questions and answers, the first stored with a reasoning text
C12_Witness ==
    /\ posted = {"deepseek"}
    /\ Len(history) = 2
    /\ history[1].reasoning = <<"a">>
    /\ messages = <<Message("user", <<"q">>), Message("assistant", <<"x">>),
                    Message("user", <<"p">>), Message("assistant", <<"y">>),
                    Message("user", <<"q">>)>>

\* C13: for a history of n Turns, the messages of the answer request are
\* exactly 2n + 2: the system message, then the list
\* get_conversation_for_deepseek returns for that history, then one user
\* message whose content embeds the current question and the current
\* reasoning; a non-empty current reasoning appears in no other message.
C13_AnswerContext ==
    posted = {"deepseek", "openai"} =>
        LET n == Len(history) IN
        /\ Len(messages) = 2 * n + 2
        /\ messages[1] = Message("system", SystemPrompt)
        /\ SubSeq(messages, 2, 2 * n + 1) = get_conversation_for_deepseek(history)
        /\ AlternatesOver(SubSeq(messages, 2, 2 * n + 1), history)
        /\ messages[2 * n + 2].role = "user"
        /\ IsSubstring(user_prompt, messages[2 * n + 2].content)
        /\ IsSubstring(reasoning_content, messages[2 * n + 2].content)
        /\ reasoning_content # <<>> =>
              ~AppearsIn(reasoning_content, SubSeq(messages, 1, 2 * n + 1))

\* the answer request for a history of two Turns and a current reasoning
C13_Witness ==
    /\ posted = {"deepseek", "openai"}
    /\ Len(history) = 2
    /\ history[1].user_query # history[2].user_query
    /\ user_prompt = <<"p">>
    /\ reasoning_content = <<"a">>
    /\ Len(messages) = 6
    /\ messages[6] = Message("user", AnswerPrefix \o <<"p">> \o AnswerMiddle
                                     \o <<"a">> \o AnswerSuffix)

(***************************************************************************)
(* What a stage delivers to the live output.                               *)
(***************************************************************************)
\* what the stage has printed, without its reports of malformed lines
Delivered == SelectSeq(stdout, LAMBDA f : f # JSONErrorReport)

RECURSIVE Concat(_)
Concat(fs) == IF fs = <<>> THEN <<>> ELSE Head(fs) \o Concat(Tail(fs))

\* the line is a payload without finish indicator whose delta carries `key`
\* with a non-empty value
CarriesNonEmpty(line, key) ==
    /\ HasChoice(line)
    /\ ~IsFinishSignal(line)
    /\ "delta" \in DOMAIN Choice(line)
    /\ Choice(line).delta.t = "obj"
    /\ key \in DOMAIN Choice(line).delta.o
    /\ PyTruthy(Choice(line).delta.o[key])

\* one fragment per line of ls that carries a non-empty `key`, in order
RECURSIVE Fragments(_, _)
Fragments(ls, key) ==
    IF ls = <<>> THEN <<>>
    ELSE (IF CarriesNonEmpty(Head(ls), key)
          THEN <<PyStr(Choice(Head(ls)).delta.o[key])>> ELSE <<>>)
         \o Fragments(Tail(ls), key)

\* C14: in each stage, what was delivered to the output so far is exactly
\* one fragment per non-empty delta of the stage's kind among the lines
\* consumed, in the order of the lines; while the stage runs and when it has
\* returned, the accumulated text is the concatenation of the fragments
\* delivered, in that order.
C14_OrderedDelivery ==
    /\ OfReasoningStage =>
          /\ Delivered = Fragments(SubSeq(lines, 1, consumed),
                                   "reasoning_content")
          /\ pc \in {"r_stream", "a_post"} =>
                reasoning_content = Concat(Delivered)
    /\ OfAnswerStage =>
          /\ Delivered = Fragments(SubSeq(lines, 1, consumed), "content")
          /\ pc = "a_stream" \/ outcome = "succeeded" =>
                complete_answer = Concat(Delivered)

\* two different reasoning fragments around a malformed line, delivered in
\* their order and returned concatenated
C14_Witness ==
    /\ OfReasoningStage
    /\ lines = <<ReasoningDelta(<<"b">>), Malformed, ReasoningDelta(<<"a">>)>>
    /\ pc = "a_post"
    /\ stdout = << <<"b">>, JSONErrorReport, <<"a">> >>
    /\ reasoning_content = <<"b", "a">>

(***************************************************************************)
(* The inputs of the interactive loop.                                     *)
(***************************************************************************)
\* the input is one of the three commands, in any letter case
IsCommand(u) == Lower(u) \in {CmdExit, CmdHistory, CmdClear}

\* the loop, reading the input u, can start a round for it
StartsRound(u) == ENABLED (InputQuestion /\ user_prompt' = u)

\* the loop stands at its prompt and the session has rounds left
AtPrompt == pc = "input" /\ rounds < MaxRounds

\* C15 (as claimed): at the prompt, a command starts no round, and every
\* other non-empty input starts one, an input made only of whitespace
\* included.
C15_EveryNonEmptyInputIsAQuestion ==
    AtPrompt =>
        \A u \in UserInputs :
            /\ IsCommand(u) => ~StartsRound(u)
            /\ ~IsCommand(u) /\ u # <<>> => StartsRound(u)

\* C15 (amended): the loop takes exactly the three commands for control
\* inputs; at the prompt an input starts a round if and only if it is no
\* command and is not blank (empty once its whitespace is stripped), so a
\* command surrounded by whitespace starts one and a whitespace-only input
\* does not; a step from the prompt either starts exactly one round, whose
\* question is such an input and which has sent no request yet, or starts
\* none and sends no request.
C15_NonBlankInputIsAQuestion ==
    /\ [](\A u \in UserInputs :
            /\ Reaction(u) \in {"exit", "history", "clear"} <=> IsCommand(u)
            /\ AtPrompt =>
                  (StartsRound(u) <=> ~IsCommand(u) /\ Strip(u) # <<>>))
    /\ [][pc = "input" =>
            IF pc' = "r_post"
            THEN /\ rounds' = rounds + 1
                 /\ posted' = {}
                 /\ ~IsCommand(user_prompt')
                 /\ Strip(user_prompt') # <<>>
            ELSE /\ rounds' = rounds
                 /\ posted' = posted
                 /\ pc' \in {"input", "exited"}]_vars

\* a round was started for the command surrounded by whitespace
C15_Witness ==
    /\ pc = "r_post"
    /\ user_prompt = <<" ">> \o CmdClear
    /\ posted = {}
    /\ rounds = 1

\* C16: summary returns the empty-state message exactly when the history
\* holds no Turn; clear, after any rounds, leaves an empty history with the
\* capacity it had, for which summary returns the empty-state message; and a
\* summary shown at the prompt is the empty-state message exactly when the
\* history holds no Turn, so always when no round was committed since the
\* last clear.
C16_ClearThenSummary ==
    /\ [](get_summary(history) = NoHistoryMessage <=> history = <<>>)
    /\ [][InputClear =>
            /\ history' = <<>>
            /\ max_history' = max_history
            /\ get_summary(history') = NoHistoryMessage]_vars
    /\ [][pc = "input" /\ pc' = "input" /\ stdout' # stdout /\ stdout' # <<>> =>
            /\ history' = history
            /\ stdout' = <<get_summary(history)>>
            /\ stdout'[1] = NoHistoryMessage <=> history = <<>>
            /\ outcome = "none" => stdout' = <<NoHistoryMessage>>]_vars

\* a round committed its Turn, the history was cleared, the summary shown
C16_Witness ==
    /\ pc = "input"
    /\ rounds = 1
    /\ lines = <<AnswerDelta(<<"x">>), StreamEnd>>
    /\ consumed = 2
    /\ complete_answer = <<"x">>
    /\ outcome = "none"
    /\ history = <<>>
    /\ stdout = <<NoHistoryMessage>>

(***************************************************************************)
(* The states of a question (section 5).                                   *)
(***************************************************************************)
ReasoningInFlight == pc \in {"r_post", "r_stream"}
AnswerInFlight == pc \in {"a_post", "a_stream"}
\* the loop is at its prompt or left: no round is in flight
NoRoundInFlight == pc \in {"input", "exited"}
Committed == NoRoundInFlight /\ outcome = "succeeded"
\* the last round ended without a Turn
RoundFailed == NoRoundInFlight /\ outcome \notin {"none", "running", "succeeded"}

\* C17: a question goes Idle -> ReasoningInFlight -> AnswerInFlight ->
\* Committed, a round fails only out of one of its two in-flight states, and
\* it fails as ReasoningFailed only out of ReasoningInFlight and as
\* AnswerFailed only out of AnswerInFlight; while the answer stage is in
\* flight the reasoning stage has stopped and has returned a text, the full
\* text its loop returns for the body it received, and the answer endpoint is
\* sent a request only after the reasoning endpoint; no question is accepted
\* while a round is in flight, and a round in flight keeps its question.
C17_StagesInSequence ==
    /\ [](AnswerInFlight =>
            /\ r_conn \in {"closed", "dropped"}
            /\ reasoning_content # None
            /\ "deepseek" \in posted
            /\ pc = "a_post" =>
                  DeepseekRun(lines, <<>>, "None") =
                      [how |-> "return", text |-> reasoning_content])
    /\ []("openai" \in posted => "deepseek" \in posted)
    /\ [](InFlight => ~ENABLED InputQuestion)
    /\ [][/\ NoRoundInFlight => NoRoundInFlight' \/ pc' = "r_post"
          /\ pc' = "r_post" =>
                NoRoundInFlight /\ outcome' = "running" /\ posted' = {}
                /\ rounds' = rounds + 1
          /\ ReasoningInFlight =>
                ReasoningInFlight' \/ AnswerInFlight' \/ RoundFailed'
          /\ AnswerInFlight => AnswerInFlight' \/ Committed' \/ RoundFailed'
          /\ AnswerInFlight' => ReasoningInFlight \/ AnswerInFlight
          /\ Committed' /\ ~Committed => AnswerInFlight
          /\ RoundFailed' /\ ~RoundFailed => InFlight
          /\ outcome' = "reasoning_failed" /\ outcome # "reasoning_failed" =>
                ReasoningInFlight
          /\ outcome' = "answer_failed" /\ outcome # "answer_failed" =>
                AnswerInFlight
          /\ InFlight /\ InFlight' =>
                user_prompt' = user_prompt /\ rounds' = rounds]_vars

\* the second question is in its answer stage after the first was committed
C17_Witness ==
    /\ pc = "a_stream"
    /\ rounds = 2
    /\ Len(history) = 1
    /\ posted = {"deepseek", "openai"}
    /\ reasoning_content = <<"a">>

\* the Turn t was committed by a round that succeeded
WasCommitted(t) == \E j \in 1..Len(log) : log[j] = t

\* C18: a round that fails leaves the history as it was, only a round whose
\* two stages succeeded stores a Turn (its own question, reasoning and
\* answer), and the messages of every request in flight are built from the
\* history, all of whose Turns were committed, and from the round's own
\* question and reasoning alone: nothing of a failed round is in them.
C18_FailedRoundLeavesNoTrace ==
    /\ [](InFlight /\ messages # <<>> =>
            /\ history = hist0
            /\ \A i \in 1..Len(history) : WasCommitted(history[i])
            /\ messages =
                  IF "openai" \in posted
                  THEN get_conversation_for_openai(history, user_prompt,
                                                   reasoning_content)
                  ELSE get_conversation_for_deepseek(history)
                       \o <<Message("user", user_prompt)>>)
    /\ [][RoundFailed' /\ ~RoundFailed => history' = history /\ log' = log]_vars
    /\ [][pc' = "r_post" /\ RoundFailed => history' = history]_vars
    /\ [][history' # history \/ log' # log =>
            \/ history' = <<>> /\ log' = <<>>
            \/ /\ AnswerInFlight
               /\ outcome' = "succeeded"
               /\ log' = Append(log, history'[Len(history')])
               /\ history'[Len(history')].user_query = user_prompt
               /\ history'[Len(history')].reasoning = reasoning_content
               /\ history'[Len(history')].ai_response = complete_answer']_vars

\* the answer request of a second round, after a first round that left no
\* Turn: the system message and the round's own message
C18_Witness ==
    /\ pc = "a_stream"
    /\ rounds = 2
    /\ log = <<>>
    /\ history = <<>>
    /\ user_prompt = <<"q">>
    /\ reasoning_content = <<>>
    /\ messages = <<Message("system", SystemPrompt),
                    Message("user", AnswerPrefix \o <<"q">> \o AnswerMiddle
                                    \o AnswerSuffix)>>

\* the step builds the messages of a request
RequestBuilt == messages' # messages /\ messages' # <<>>

\* the step shows the summary at the prompt
SummaryShown ==
    pc = "input" /\ pc' = "input" /\ stdout' # stdout /\ stdout' # <<>>

\* the step is '#clear' at the prompt
ClearStep == pc = "input" /\ pc' = "input" /\ history' = <<>> /\ log' = <<>>

\* the step is the commit of a round whose two stages returned a text
CommitStep ==
    /\ AnswerInFlight
    /\ outcome' = "succeeded"
    /\ \E timestamp \in 1..MaxRounds :
          history' = add_interaction(history, max_history, user_prompt,
                                     reasoning_content, complete_answer',
                                     timestamp)

\* C19: a step that builds the messages of the reasoning request (the
\* current question appended) or of the answer request, and a step that
\* shows the summary, leave the stored Turns and the capacity as they were;
\* the stored Turns change only in the commit of a round whose two stages
\* succeeded and in clear.
C19_ReadsLeaveHistoryUnchanged ==
    [][/\ RequestBuilt => history' = history /\ max_history' = max_history
       /\ SummaryShown =>
             /\ stdout' = <<get_summary(history)>>
             /\ history' = history
             /\ max_history' = max_history
       /\ history' # history => ClearStep \/ CommitStep]_vars

\* the reasoning request of a second round was built from a history of one
\* Turn, which is as it was
C19_Witness ==
    /\ pc = "r_stream"
    /\ rounds = 2
    /\ Len(messages) = 3
    /\ Len(history) = 1
    /\ history = hist0
    /\ history = log

\* the line is an AnswerDelta, whatever JSON value its content field holds:
\* a delta with a content field and no reasoning field
IsContentDelta(line) ==
    /\ HasDelta(line)
    /\ "reasoning_content" \notin DOMAIN Delta(line)
    /\ "content" \in DOMAIN Delta(line)

\* the i-th line is an AnswerDelta with no ReasoningDelta before it
LeadingAnswerDelta(i) ==
    /\ IsContentDelta(lines[i])
    /\ \A j \in 1..(i - 1) : ~IsReasoningDelta(lines[j])

\* the i-th line is an AnswerDelta that follows a ReasoningDelta
AnswerDeltaAfterReasoning(i) ==
    /\ IsContentDelta(lines[i])
    /\ \E j \in 1..(i - 1) : IsReasoningDelta(lines[j])

\* C20: in the reasoning stage, when an AnswerDelta that no ReasoningDelta
\* precedes has just been consumed and lines remain, the loop is still
\* running, the response is open and no text was appended for it; the stage
\* returns only at a finish signal, at the [DONE] sentinel, at an AnswerDelta
\* that follows a ReasoningDelta or when the body is exhausted, and closes
\* the response early only at such an AnswerDelta; and the text accumulated,
\* and returned, is the concatenation of the reasoning texts of the lines
\* consumed and nothing else.
C20_LeadingAnswerDeltaIgnored ==
    OfReasoningStage =>
        /\ consumed >= 1 /\ consumed < Len(lines)
           /\ LeadingAnswerDelta(consumed) =>
              /\ pc = "r_stream"
              /\ r_conn = "open"
              /\ reasoning_content =
                    ReasoningTexts(SubSeq(lines, 1, consumed - 1))
        /\ pc = "a_post" /\ consumed < Len(lines) =>
              /\ consumed >= 1
              /\ \/ IsFinishSignal(lines[consumed])
                 \/ lines[consumed] = StreamEnd
                 \/ AnswerDeltaAfterReasoning(consumed)
              /\ r_conn = "closed" <=> AnswerDeltaAfterReasoning(consumed)
        /\ pc \in {"r_stream", "a_post"} =>
              reasoning_content = ReasoningTexts(SubSeq(lines, 1, consumed))

\* the leading AnswerDelta was passed over, the one after the ReasoningDelta
\* ended the stage, and only the reasoning text was returned
C20_Witness ==
    /\ OfReasoningStage
    /\ lines = <<AnswerDelta(<<"x">>), ReasoningDelta(<<"a">>),
                 AnswerDelta(<<"x">>)>>
    /\ pc = "a_post"
    /\ consumed = 3
    /\ r_conn = "closed"
    /\ reasoning_content = <<"a">>

=============================================================================
